---------------------------- MODULE Spec2Model ----------------------------
(***************************************************************************)
(* GetOrderBookStrategy (hummingbot/strategy/dev_1_get_order_book):        *)
(* the readiness gate tick(), the stop handler stop(), the status report   *)
(* format_status(), the renderer get_order_book() and the live refresh     *)
(* loop show_order_book(), which runs as one asyncio task and is modelled  *)
(* one step per stretch of code between two suspension points.             *)
(***************************************************************************)
EXTENDS Integers, Sequences, FiniteSets, TLC

(***************************************************************************)
(* Bounds of the model.                                                    *)
(***************************************************************************)
\* longest side of an order-book snapshot
MaxLevels == 3
\* largest configured number of lines
MaxLines == 2
\* ticks counted exactly by the history counter ready_ticks (it saturates)
MaxTicks == 3

VARIABLES
    ready,                 \* self._ready
    get_order_book_task,   \* self._get_order_book_task: None or a task handle
    tasks,                 \* the event loop's tasks created by tick(), by handle
    exchange_name,         \* self._exchange.name
    trading_pair,          \* self._trading_pair
    lines,                 \* self._lines
    exchange_ready,        \* self._exchange.ready
    pair_listed,           \* self._trading_pair in self._exchange.order_books
    book,                  \* self._exchange.order_books[pair].snapshot
    live_updates,          \* main_app.app.live_updates
    displayed,             \* the text last handed to main_app.cls_display_delay
    events,                \* what the last step sent to the log, the notifier, the display and the event loop
    ret,                   \* the last operation and how it returned
    ever_exchange_ready,   \* history: the connector has reported ready at some time
    ready_ticks,           \* history: tick() calls made with the connector ready and task creation working
    flag_clear,            \* history: an external actor cleared the flag under a running loop and it has stayed
                           \*          cleared (pending), and the renders made since then
    stop_notices,          \* history: 'Stopped live orderbook display update.' notices sent
    snapshot_read          \* history: "unread" before the first render, "read" after a render, "changed" once
                           \*          the book changes under the sleeping loop, "reread" after the next render

vars == <<ready, get_order_book_task, tasks, exchange_name, trading_pair, lines,
          exchange_ready, pair_listed, book, live_updates, displayed, events, ret,
          ever_exchange_ready, ready_ticks, flag_clear, stop_notices, snapshot_read>>

config == <<exchange_name, trading_pair, lines>>
history == <<ever_exchange_ready, ready_ticks, flag_clear, stop_notices, snapshot_read>>

Min(a, b) == IF a < b THEN a ELSE b
Max(a, b) == IF a > b THEN a ELSE b

(***************************************************************************)
(* Values.                                                                 *)
(***************************************************************************)
\* Python's None, as the task handle
None == 0
\* no text has been displayed yet
NoText == <<>>
\* no external clear of the flag is pending
NoClear == [pending |-> FALSE, renders |-> 0]

\* characters and their upper case (str.upper)
Upper(c) == CASE c = "a" -> "A" [] c = "b" -> "B" [] OTHER -> c
upper(s) == [i \in DOMAIN s |-> Upper(s[i])]

ExchangeNames == {<<"a", "B">>, <<"b">>}
TradingPairs == {<<"A", "-", "b">>}

\* the not-ready message sent to the user panel
NotReadyNotified(name) == <<"notify", name, " is not ready. Please wait...">>

\* messages, by channel
LogNotReady(name) == <<"log.warning", name, " is not ready. Please wait...">>
NotifyConnectorReady(name) == <<"notify", upper(name), " Connector is ready!">>
LogLaunchError == <<"log.error", "Error starting live order book. ">>
LogInvalidMarket(pair, name) == <<"log.error", "Invalid market ", pair, " on ", name, " connector.">>
NotifyStopped == <<"notify", "Stopped live orderbook display update.">>
CallStopLiveUpdate == <<"display", "stop_live_update">>
SetLiveUpdates == <<"display", "live_updates = True">>
CallClsDisplayDelay == <<"display", "cls_display_delay">>
CallCancel(h) == <<"task", "cancel", h>>
CreateTask(h) == <<"task", "ensure_future", h>>

NotReadyStatus == "Exchange connector(s) are not ready."
PressEscape == "\n\n Press escape key to stop update."

\* how a call ended
Returned(op, value) == [op |-> op, raised |-> "", value |-> value]
Raised(op, exc) == [op |-> op, raised |-> exc, value |-> "None"]

(***************************************************************************)
(* Order-book snapshots: two sides of levels (price, amount, update_id),   *)
(* bids by descending price and asks by ascending price.                   *)
(***************************************************************************)
Level(p, a) == [price |-> p, amount |-> a, update_id |-> 7]

BidLevels == <<Level(100, 1), Level(99, 2), Level(98, 3), Level(97, 4)>>
AskLevels == <<Level(101, 1), Level(102, 2), Level(103, 3), Level(104, 4)>>

\* the subsequences of s that keep its order, of at most n levels
RECURSIVE SubSeqs(_, _)
SubSeqs(s, n) ==
    IF Len(s) = 0 \/ n = 0 THEN {<<>>}
    ELSE SubSeqs(Tail(s), n)
         \cup {<<Head(s)>> \o t : t \in SubSeqs(Tail(s), n - 1)}

Sides(levels) == SubSeqs(SubSeq(levels, 1, MaxLevels), MaxLevels)
Books == {<<b, a>> : b \in Sides(BidLevels), a \in Sides(AskLevels)}
\* the snapshots the connector moves between while the strategy runs
LiveBooks == {<<SubSeq(BidLevels, 1, MaxLevels), SubSeq(AskLevels, 1, MaxLevels)>>,
              <<SubSeq(BidLevels, 2, MaxLevels), SubSeq(AskLevels, 1, 1)>>}


(***************************************************************************)
(* get_order_book(): the pandas operations, on sequences of rows.          *)
(***************************************************************************)
\* head() that keeps one row more than asked
head_one_more(rows, n) == SubSeq(rows, 1, Min(n + 1, Len(rows)))

\* DataFrame.head(n): the first n rows; all but the last -n rows when n < 0
head(rows, n) ==
    IF n >= 0 THEN SubSeq(rows, 1, Min(n, Len(rows)))
    ELSE SubSeq(rows, 1, Max(0, Len(rows) + n))

\* df[['price', 'amount']]: the two columns, in that order
price_amount(rows) == [i \in DOMAIN rows |-> <<rows[i].price, rows[i].amount>>]

\* a cell as to_string prints it
str(v) == ToString(v)

\* rename(columns=...): the column names of each side
bid_columns == <<"bid_price", "bid_volume">>
ask_columns == <<"ask_price", "ask_volume">>

\* pd.concat([bids, asks], axis=1): the rows joined on their index 0, 1, ...,
\* a side that has no row at an index giving NaN cells
NaN == "NaN"
cells(side, i) == IF i <= Len(side) THEN <<str(side[i][1]), str(side[i][2])>> ELSE <<NaN, NaN>>
concat(bids, asks) ==
    [i \in 1..Max(Len(bids), Len(asks)) |-> cells(bids, i) \o cells(asks, i)]

\* DataFrame.to_string(index=False).split("\n"): a line of column names, then
\* one line per row; pandas prints an empty frame as three lines
to_string(columns, rows) ==
    IF Len(rows) = 0
    THEN <<<<"Empty DataFrame">>, <<"Columns: ">> \o columns, <<"Index: []">>>>
    ELSE <<columns>> \o rows

\* "    " + line
indent(line) == <<"    ">> \o line

\* a header in upper case, as tick() prints the name
header_upper(name, pair) == <<"  market: ", upper(name), " ", upper(pair)>>

\* f"  market: {self._exchange.name} {self._trading_pair}\n"
header(name, pair) == <<"  market: ", name, " ", pair>>

\* the text get_order_book() returns, as its lines
get_order_book(name, pair, snapshot, n) ==
    LET bids == head(price_amount(snapshot[1]), n)
        asks == head(price_amount(snapshot[2]), n)
        joined_df == concat(bids, asks)
        split == to_string(bid_columns \o ask_columns, joined_df)
        text_lines == [i \in DOMAIN split |-> indent(split[i])]
    IN  <<header(name, pair)>> \o text_lines

(***************************************************************************)
(* The asyncio task that runs show_order_book().                           *)
(***************************************************************************)
NewTask == [pc |-> "scheduled", cancel_requested |-> FALSE, touched_display |-> FALSE]

Done == {"returned", "raised ValueError", "raised KeyError", "cancelled"}
done(t) == t.pc \in Done

\* cancel() that only reaches a task that has started
cancel_unless_scheduled(t) ==
    IF t.pc \in {"returned", "raised ValueError", "raised KeyError", "cancelled", "scheduled"}
    THEN t ELSE [t EXCEPT !.cancel_requested = TRUE]

\* cancel() that loses the request
cancel_lost(t) == t

\* Task.cancel(): a request, delivered at the task's next step; nothing on a finished task
cancel(t) == IF done(t) THEN t ELSE [t EXCEPT !.cancel_requested = TRUE]

\* the loop is inside its while, suspended in cls_display_delay, and not being cancelled
InLoop(t) == t.pc = "await cls_display_delay" /\ ~t.cancel_requested
LoopRunning == \E i \in DOMAIN tasks : InLoop(tasks[i])

(***************************************************************************)
(* __init__                                                                *)
(***************************************************************************)
\* the attributes __init__ sets on the instance
InstanceAttributes ==
    {"_exchange", "_market_info", "_trading_pair", "_lines", "_ready", "_get_order_book_task"}

InitStrategy ==
    /\ ready = FALSE
    /\ get_order_book_task = None
    /\ tasks = <<>>
    /\ displayed = NoText
    /\ events = <<>>
    /\ ret = Returned("__init__", "None")
    /\ exchange_ready \in BOOLEAN
    /\ ever_exchange_ready = exchange_ready
    /\ pair_listed \in BOOLEAN
    /\ live_updates \in BOOLEAN
    /\ ready_ticks = 0
    /\ flag_clear = NoClear
    /\ stop_notices = 0
    /\ snapshot_read = "unread"

Init ==
    /\ InitStrategy
    /\ exchange_name \in ExchangeNames
    /\ trading_pair \in TradingPairs
    /\ lines \in 1..MaxLines
    /\ book \in LiveBooks

env == <<exchange_ready, pair_listed, book, live_updates>>

(***************************************************************************)
(* tick(timestamp).  launch_fails: safe_ensure_future raises in this call. *)
(***************************************************************************)
\* an early return only while the connector is ready
tick_returns_while_connected == ready /\ exchange_ready

\* tick() without its early return
tick_never_returns == FALSE

\* if self._ready: return
tick_returns == ready

\* the readiness test inverted
tick_waits_inverted == ~ready /\ exchange_ready

\* if not self._ready and not self._exchange.ready
tick_waits == ~ready /\ ~exchange_ready

\* if self._get_order_book_task is None
tick_launches == get_order_book_task = None

\* a launch that leaves _ready unset
ready_forgotten == FALSE

\* self._ready = True, after the task is created
ready_after_launch == TRUE

\* an except branch that marks the strategy ready
ready_despite_error == TRUE

\* except Exception: ... self._ready = False
ready_after_error == FALSE

tick(launch_fails) ==
    /\ ret' = Returned("tick", "None")
    /\ IF tick_returns
       THEN /\ events' = <<>>
            /\ UNCHANGED <<ready, get_order_book_task, tasks>>
       ELSE IF tick_waits
       THEN /\ events' = <<LogNotReady(exchange_name)>>
            /\ UNCHANGED <<ready, get_order_book_task, tasks>>
       ELSE IF ~tick_launches
       THEN /\ events' = <<NotifyConnectorReady(exchange_name)>>
            /\ UNCHANGED <<ready, get_order_book_task, tasks>>
       ELSE IF launch_fails
       THEN /\ events' = <<NotifyConnectorReady(exchange_name), LogLaunchError>>
            /\ ready' = ready_after_error
            /\ UNCHANGED <<get_order_book_task, tasks>>
       ELSE /\ events' = <<NotifyConnectorReady(exchange_name), CreateTask(Len(tasks) + 1)>>
            /\ tasks' = Append(tasks, NewTask)
            /\ get_order_book_task' = Len(tasks) + 1
            /\ ready' = ready_after_launch
    /\ ready_ticks' = IF exchange_ready /\ ~launch_fails
                      THEN Min(ready_ticks + 1, MaxTicks) ELSE ready_ticks
    /\ UNCHANGED <<config, env, displayed, ever_exchange_ready, flag_clear, stop_notices,
                   snapshot_read>>

(***************************************************************************)
(* stop(clock)                                                             *)
(***************************************************************************)
\* stop() that keeps the handle
handle_kept == get_order_book_task

\* stop() that also switches the live-updates flag off
stop_resetting_flag ==
    /\ ret' = Returned("stop", "None")
    /\ IF get_order_book_task # None
       THEN /\ events' = <<CallCancel(get_order_book_task)>>
            /\ tasks' = [tasks EXCEPT ![get_order_book_task] = cancel(@)]
            /\ get_order_book_task' = None
            /\ live_updates' = FALSE
       ELSE /\ events' = <<>>
            /\ UNCHANGED <<tasks, get_order_book_task, live_updates>>
    /\ UNCHANGED <<ready, config, exchange_ready, pair_listed, book, displayed, history>>

\* stop() that also takes the strategy back to not ready
stop_resetting_ready ==
    /\ ret' = Returned("stop", "None")
    /\ IF get_order_book_task # None
       THEN /\ events' = <<CallCancel(get_order_book_task)>>
            /\ tasks' = [tasks EXCEPT ![get_order_book_task] = cancel(@)]
            /\ get_order_book_task' = None
            /\ ready' = FALSE
       ELSE /\ events' = <<>>
            /\ UNCHANGED <<tasks, get_order_book_task, ready>>
    /\ UNCHANGED <<config, env, displayed, history>>

\* self._get_order_book_task = None
handle_after_stop == None

stop ==
    /\ ret' = Returned("stop", "None")
    /\ IF get_order_book_task # None
       THEN /\ events' = <<CallCancel(get_order_book_task)>>
            /\ tasks' = [tasks EXCEPT ![get_order_book_task] = cancel(@)]
            /\ get_order_book_task' = handle_after_stop
       ELSE /\ events' = <<>>
            /\ UNCHANGED <<tasks, get_order_book_task>>
    /\ UNCHANGED <<ready, config, env, displayed, history>>

(***************************************************************************)
(* format_status()                                                         *)
(***************************************************************************)
\* for market_info in self._market_infos.values(): ... str(self._asset) ...
status_attributes == <<"_market_infos", "_asset">>

\* the first attribute the report reads that the instance does not have
missing_attribute ==
    LET missing == {i \in DOMAIN status_attributes : status_attributes[i] \notin InstanceAttributes}
    IN  IF missing = {} THEN "" ELSE status_attributes[CHOOSE i \in missing : \A j \in missing : i <= j]

format_status ==
    /\ ret' = IF ~ready THEN Returned("format_status", NotReadyStatus)
              ELSE IF missing_attribute # ""
              THEN Raised("format_status", "AttributeError")
              ELSE Returned("format_status", "\n  Assets:\n    asset    balance")
    /\ events' = <<>>
    /\ UNCHANGED <<ready, get_order_book_task, tasks, config, env, displayed, history>>

(***************************************************************************)
(* show_order_book(), task i of the event loop: one action per stretch of  *)
(* code between two suspension points.                                     *)
(***************************************************************************)
\* show_order_book() without the market check
market_unchecked == FALSE

\* if self._trading_pair not in self._exchange.order_books
invalid_market == ~pair_listed

\* while True
while_true(flag) == TRUE

\* while main_app.app.live_updates
while_live_updates(flag) == flag

\* a text rendered once and shown again
display_text_cached ==
    IF displayed # NoText THEN displayed
    ELSE get_order_book(exchange_name, trading_pair, book, lines) \o <<<<PressEscape>>>>

\* self.get_order_book() + "\n\n Press escape key to stop update."
display_text == get_order_book(exchange_name, trading_pair, book, lines) \o <<<<PressEscape>>>>

\* one pass of the while statement, entered with the flag as it is read:
\* a render that suspends in cls_display_delay, a KeyError of get_order_book()
\* when the pair has left order_books, or the exit and its notice
while_pass(i, flag, before) ==
    IF while_live_updates(flag)
    THEN IF pair_listed
         THEN /\ tasks' = [tasks EXCEPT ![i].pc = "await cls_display_delay",
                                        ![i].touched_display = TRUE]
              /\ displayed' = display_text
              /\ events' = before \o <<CallClsDisplayDelay>>
              /\ ret' = Returned("show_order_book", "await")
              /\ flag_clear' = IF flag_clear.pending
                               THEN [flag_clear EXCEPT !.renders = Min(@ + 1, 2)]
                               ELSE flag_clear
              /\ snapshot_read' = IF snapshot_read = "changed" THEN "reread" ELSE "read"
              /\ UNCHANGED stop_notices
         ELSE /\ tasks' = [tasks EXCEPT ![i].pc = "raised KeyError"]
              /\ events' = before
              /\ ret' = Raised("show_order_book", "KeyError")
              /\ UNCHANGED <<displayed, flag_clear, stop_notices, snapshot_read>>
    ELSE /\ tasks' = [tasks EXCEPT ![i].pc = "returned", ![i].touched_display = TRUE]
         /\ events' = before \o <<NotifyStopped>>
         /\ ret' = Returned("show_order_book", "None")
         /\ stop_notices' = stop_notices + 1
         /\ UNCHANGED <<displayed, flag_clear, snapshot_read>>

\* a first step that sets the flag before it awaits stop_live_update()
start_sets_flag_first(i) ==
    /\ tasks[i].pc = "scheduled"
    /\ ~tasks[i].cancel_requested
    /\ pair_listed
    /\ tasks' = [tasks EXCEPT ![i].pc = "await stop_live_update", ![i].touched_display = TRUE]
    /\ events' = <<SetLiveUpdates, CallStopLiveUpdate>>
    /\ ret' = Returned("show_order_book", "await")
    /\ live_updates' = TRUE
    /\ UNCHANGED <<ready, get_order_book_task, config, exchange_ready, pair_listed, book,
                   displayed, history>>

\* the first step: the market check, then await main_app.stop_live_update()
show_order_book_start(i) ==
    /\ tasks[i].pc = "scheduled"
    /\ ~tasks[i].cancel_requested
    /\ IF invalid_market
       THEN /\ tasks' = [tasks EXCEPT ![i].pc = "raised ValueError"]
            /\ events' = <<LogInvalidMarket(trading_pair, exchange_name)>>
            /\ ret' = Raised("show_order_book", "ValueError")
       ELSE /\ tasks' = [tasks EXCEPT ![i].pc = "await stop_live_update",
                                      ![i].touched_display = TRUE]
            /\ events' = <<CallStopLiveUpdate>>
            /\ ret' = Returned("show_order_book", "await")
    /\ UNCHANGED <<ready, get_order_book_task, config, env, displayed, history>>

\* stop_live_update() has returned: the flag is set and the while is entered
show_order_book_live(i) ==
    /\ tasks[i].pc = "await stop_live_update"
    /\ ~tasks[i].cancel_requested
    /\ live_updates' = TRUE
    /\ while_pass(i, TRUE, <<SetLiveUpdates>>)
    /\ flag_clear' = NoClear
    /\ UNCHANGED <<ready, get_order_book_task, config, exchange_ready, pair_listed, book,
                   ever_exchange_ready, ready_ticks>>

\* cls_display_delay() has returned: the while condition is read again
show_order_book_loop(i) ==
    /\ tasks[i].pc = "await cls_display_delay"
    /\ ~tasks[i].cancel_requested
    /\ while_pass(i, live_updates, <<>>)
    /\ UNCHANGED <<ready, get_order_book_task, config, env, ever_exchange_ready, ready_ticks>>

\* a cancellation that still sends the stop notice
cancelled_with_notice(i) ==
    /\ ~done(tasks[i])
    /\ tasks[i].cancel_requested
    /\ tasks' = [tasks EXCEPT ![i].pc = "cancelled"]
    /\ events' = <<NotifyStopped>>
    /\ ret' = Raised("show_order_book", "CancelledError")
    /\ stop_notices' = stop_notices + 1
    /\ UNCHANGED <<ready, get_order_book_task, config, env, displayed,
                   ever_exchange_ready, ready_ticks, flag_clear, snapshot_read>>

\* the event loop delivers the cancellation stop() asked for: CancelledError
\* is thrown into the coroutine where it is suspended, and nothing catches it
show_order_book_cancelled(i) ==
    /\ ~done(tasks[i])
    /\ tasks[i].cancel_requested
    /\ tasks' = [tasks EXCEPT ![i].pc = "cancelled"]
    /\ events' = <<>>
    /\ ret' = Raised("show_order_book", "CancelledError")
    /\ UNCHANGED <<ready, get_order_book_task, config, env, displayed, history>>

show_order_book ==
    \E i \in DOMAIN tasks :
        \/ show_order_book_start(i)
        \/ show_order_book_live(i)
        \/ show_order_book_loop(i)
        \/ show_order_book_cancelled(i)

(***************************************************************************)
(* The collaborators: the connector and the other users of the display.    *)
(***************************************************************************)
Environment(op) ==
    /\ ret' = Returned(op, "None")
    /\ events' = <<>>
    /\ UNCHANGED <<ready, get_order_book_task, tasks, config, displayed, ready_ticks, stop_notices>>

\* the connector becomes ready, or stops being ready
connector_ready(b) ==
    /\ b # exchange_ready
    /\ exchange_ready' = b
    /\ ever_exchange_ready' = (ever_exchange_ready \/ b)
    /\ Environment("exchange.ready")
    /\ UNCHANGED <<pair_listed, book, live_updates, flag_clear, snapshot_read>>

\* the connector lists or delists the trading pair
order_books_listing(b) ==
    /\ b # pair_listed
    /\ pair_listed' = b
    /\ Environment("exchange.order_books")
    /\ UNCHANGED <<exchange_ready, ever_exchange_ready, book, live_updates, flag_clear,
                   snapshot_read>>

\* the order book of the trading pair changes
order_book_update(snapshot) ==
    /\ snapshot # book
    /\ book' = snapshot
    /\ Environment("order_book.snapshot")
    /\ snapshot_read' = IF LoopRunning THEN "changed" ELSE snapshot_read
    /\ UNCHANGED <<exchange_ready, ever_exchange_ready, pair_listed, live_updates, flag_clear>>

\* another actor (the escape key, another live command) writes the flag
external_live_updates(b) ==
    /\ b # live_updates
    /\ live_updates' = b
    /\ flag_clear' = IF b THEN NoClear
                     ELSE IF LoopRunning THEN [pending |-> TRUE, renders |-> 0]
                     ELSE flag_clear
    /\ Environment("app.live_updates")
    /\ UNCHANGED <<exchange_ready, ever_exchange_ready, pair_listed, book, snapshot_read>>

(***************************************************************************)
(* The strategy with its collaborators.                                    *)
(***************************************************************************)
Next ==
    \/ \E launch_fails \in BOOLEAN : tick(launch_fails)
    \/ stop
    \/ format_status
    \/ show_order_book
    \/ \E b \in BOOLEAN : connector_ready(b)
    \/ \E b \in BOOLEAN : order_books_listing(b)
    \/ \E snapshot \in LiveBooks : order_book_update(snapshot)
    \/ \E b \in BOOLEAN : external_live_updates(b)

Spec == Init /\ [][Next]_vars

\* the event loop resumes a task whose await has completed
FairSpec == Spec /\ WF_vars(show_order_book)

(***************************************************************************)
(* get_order_book() on its own, for every snapshot and configuration.      *)
(***************************************************************************)
get_order_book_call ==
    /\ ret' = IF pair_listed
              THEN Returned("get_order_book",
                            get_order_book(exchange_name, trading_pair, book, lines))
              ELSE Raised("get_order_book", "KeyError")
    /\ events' = <<>>
    /\ UNCHANGED <<ready, get_order_book_task, tasks, config, env, displayed, history>>

RenderInit ==
    /\ InitStrategy
    /\ exchange_name \in ExchangeNames
    /\ trading_pair \in TradingPairs
    /\ lines \in 1..MaxLines
    /\ book \in Books

RenderNext == get_order_book_call

RenderSpec == RenderInit /\ [][RenderNext]_vars

(***************************************************************************)
(* Properties.                                                             *)
(***************************************************************************)
Launches == Len(tasks)
Active == {i \in DOMAIN tasks : ~done(tasks[i])}
LaunchFailed(ev) == \E k \in DOMAIN ev : ev[k] = LogLaunchError
Created(ev) == \E k \in DOMAIN ev : ev[k][1] = "task" /\ ev[k][2] = "ensure_future"

\* C1: ticks made while the connector reports ready and task creation works
\* launch the loop exactly once: the first of them launches it, every later
\* one launches nothing.
C1_IdempotentLaunch ==
    /\ [](ready_ticks >= 1 => Launches = 1)
    /\ [][(ret'.op = "tick" /\ exchange_ready /\ ~LaunchFailed(events'))
            => IF ready_ticks = 0
               THEN Launches = 0 /\ Launches' = 1 /\ Created(events')
               ELSE tasks' = tasks /\ ~Created(events')]_vars

C1_Witness == ready_ticks >= 2 /\ Launches = 1 /\ ret.op = "tick"

\* C2: at most one refresh task is ever created and at most one is active,
\* whatever tick(), stop(), the connector, the flag and the loop do; a tick
\* after stop() launches no second loop.
C2_AtMostOneLoop == Launches <= 1 /\ Cardinality(Active) <= 1

\* a tick made after stop(), with the connector ready
C2_Witness ==
    /\ ret.op = "tick" /\ exchange_ready
    /\ Launches = 1 /\ get_order_book_task = None

\* C3: as long as the connector has never reported ready, no task exists,
\* the handle is None and _ready is false.
C3_NoPrematureLaunch ==
    ~ever_exchange_ready => get_order_book_task = None /\ ~ready /\ Launches = 0

C3_Witness == ~ever_exchange_ready /\ ret.op = "tick" /\ events = <<LogNotReady(exchange_name)>>

\* C4 as claimed: the handle is set only while _ready is true and the task
\* it names has not finished.
C4_HandleOnlyWhileRunning ==
    get_order_book_task # None
        => ready /\ get_order_book_task \in DOMAIN tasks /\ ~done(tasks[get_order_book_task])

\* C4: the handle is set only while _ready is true and stop() has not been
\* called since the launch; the task it names is running or has finished.
C4_HandleUntilStop ==
    get_order_book_task # None
        => /\ ready
           /\ get_order_book_task \in DOMAIN tasks
           /\ ~tasks[get_order_book_task].cancel_requested
           /\ tasks[get_order_book_task].pc # "cancelled"

\* the handle outlives the loop
C4_Witness == get_order_book_task # None /\ done(tasks[get_order_book_task])

LoopReturned == \E i \in DOMAIN tasks : tasks[i].pc = "returned"
CancelRequested == \E i \in DOMAIN tasks : tasks[i].cancel_requested

\* C5: once an external actor clears the flag under a running loop and it
\* stays cleared, the loop renders at most once more; its next step sends the
\* stop notice and returns without raising; and with the event loop resuming
\* the task, that exit comes (unless stop() cancels it or the flag is set again).
C5_GracefulStop ==
    /\ [](flag_clear.pending => flag_clear.renders <= 1)
    /\ [][\A i \in DOMAIN tasks :
            (InLoop(tasks[i]) /\ ~live_updates /\ tasks'[i].pc # tasks[i].pc)
                => /\ tasks'[i].pc = "returned"
                   /\ ret' = Returned("show_order_book", "None")
                   /\ events' = <<NotifyStopped>>
                   /\ stop_notices' = stop_notices + 1
                   /\ displayed' = displayed]_vars
    /\ (LoopRunning /\ ~live_updates) ~> (LoopReturned \/ live_updates \/ CancelRequested)

C5_Witness ==
    /\ flag_clear.pending /\ ~live_updates
    /\ LoopReturned /\ events = <<NotifyStopped>>

\* C6: stop() does not raise; with a handle registered it asks the task to
\* cancel (a loop in its pacing sleep is then pending cancellation) and clears
\* the handle; with no handle, as on every later call, it changes nothing
\* and cancels nothing.
C6_StopIdempotent ==
    [][ret'.op = "stop"
        => /\ ret'.raised = ""
           /\ IF get_order_book_task = None
              THEN /\ events' = <<>>
                   /\ UNCHANGED <<ready, get_order_book_task, tasks, config, env,
                                  displayed, history>>
              ELSE /\ events' = <<CallCancel(get_order_book_task)>>
                   /\ get_order_book_task' = None
                   /\ InLoop(tasks[get_order_book_task])
                        => tasks'[get_order_book_task].cancel_requested
                   /\ UNCHANGED <<ready, live_updates, displayed>>]_vars

\* a second stop(), after one that cancelled the loop in its pacing sleep
C6_Witness ==
    /\ ret.op = "stop" /\ events = <<>> /\ get_order_book_task = None
    /\ \E i \in DOMAIN tasks :
            tasks[i].pc = "await cls_display_delay" /\ tasks[i].cancel_requested

\* C7: a loop started for a pair that is not in order_books logs the error
\* and raises ValueError, having made no call to the display, written no
\* flag, rendered nothing and sent no notice.
C7_InvalidMarketAbort ==
    /\ [](\A i \in DOMAIN tasks :
            tasks[i].pc = "raised ValueError" => ~tasks[i].touched_display)
    /\ [][\A i \in DOMAIN tasks :
            (tasks[i].pc = "scheduled" /\ ~tasks[i].cancel_requested
                /\ ~pair_listed /\ tasks'[i].pc # "scheduled")
                => /\ tasks'[i].pc = "raised ValueError"
                   /\ ret' = Raised("show_order_book", "ValueError")
                   /\ events' = <<LogInvalidMarket(trading_pair, exchange_name)>>
                   /\ UNCHANGED <<live_updates, displayed, stop_notices>>]_vars

C7_Witness == \E i \in DOMAIN tasks : tasks[i].pc = "raised ValueError"

\* C8: a tick whose task creation raises logs the failure and leaves _ready
\* false and the handle None, with no task created; and every tick made with
\* the connector ready while nothing is launched attempts the launch, so the
\* tick after a failure tries again.
C8_LaunchRollback ==
    /\ [][LaunchFailed(events')
            => /\ ret'.op = "tick"
               /\ ready' = FALSE /\ get_order_book_task' = None
               /\ tasks' = tasks]_vars
    /\ [][(ret'.op = "tick" /\ exchange_ready /\ ~ready /\ get_order_book_task = None)
            => \/ LaunchFailed(events')
               \/ Created(events') /\ Launches' = Launches + 1
                    /\ get_order_book_task' = Launches']_vars

C8_Witness == ret.op = "tick" /\ LaunchFailed(events) /\ ~ready /\ get_order_book_task = None

\* C9 as claimed: format_status() completes with a text, the not-ready
\* message exactly when _ready is false, and changes nothing.
C9_StatusReport ==
    [][ret'.op = "format_status"
        => /\ ret'.raised = ""
           /\ (ret'.value = NotReadyStatus) <=> ~ready
           /\ UNCHANGED <<ready, get_order_book_task, tasks, live_updates>>]_vars

\* the rows of a rendered table: the lines after the header and the line of
\* column names, without their indent
data_rows(text) ==
    IF text[2] = indent(<<"Empty DataFrame">>) THEN <<>>
    ELSE [i \in 1..(Len(text) - 2) |-> Tail(text[i + 2])]

\* C10: when both sides of the snapshot have at least lines levels, the
\* table has exactly lines rows, and row i is the price and amount of bid i
\* followed by the price and amount of ask i.
C10_RowProjection ==
    (ret.op = "get_order_book" /\ ret.raised = ""
        /\ Len(book[1]) >= lines /\ Len(book[2]) >= lines)
        => data_rows(ret.value) =
             [i \in 1..lines |-> <<str(book[1][i].price), str(book[1][i].amount),
                                   str(book[2][i].price), str(book[2][i].amount)>>]

\* a render that leaves levels out on both sides
C10_Witness ==
    /\ ret.op = "get_order_book" /\ ret.raised = ""
    /\ Len(book[1]) > lines /\ Len(book[2]) > lines /\ lines >= 2

StoppedNotice(ev) == \E k \in DOMAIN ev : ev[k] = NotifyStopped
OnDisplay(ev, call) == \E k \in DOMAIN ev : ev[k][1] = "display" /\ ev[k][2] = call
Rendered(ev) == OnDisplay(ev, "cls_display_delay")
FlagSet(ev) == OnDisplay(ev, "live_updates = True")
Failed(t) == t.pc \in {"raised ValueError", "raised KeyError"}
LoopFailed == \E i \in DOMAIN tasks : Failed(tasks[i])

\* C11: the first line of every text get_order_book() returns is the header,
\* and it holds the connector's name and the trading pair as they are.
C11_HeaderVerbatim ==
    (ret.op = "get_order_book" /\ ret.raised = "")
        => /\ ret.value[1][1] = "  market: "
           /\ ret.value[1][2] = exchange_name
           /\ ret.value[1][3] = " "
           /\ ret.value[1][4] = trading_pair

\* a header for a name and a pair that upper case would change
C11_Witness ==
    /\ ret.op = "get_order_book" /\ ret.raised = ""
    /\ upper(exchange_name) # exchange_name /\ upper(trading_pair) # trading_pair

\* C12: with _ready true a tick does nothing, whatever the connector reports
\* and whether or not stop() was called or the task has finished: _ready, the
\* handle and the tasks stay as they are, nothing is logged, nothing notified.
C12_TickNoOpOnceReady ==
    [][(ret'.op = "tick" /\ ready)
        => /\ events' = <<>>
           /\ UNCHANGED <<ready, get_order_book_task, tasks, config, env, displayed,
                          ever_exchange_ready, flag_clear, stop_notices, snapshot_read>>]_vars

\* a tick after stop(), the task finished and the connector no longer ready
C12_Witness ==
    /\ ret.op = "tick" /\ events = <<>> /\ ready
    /\ ~exchange_ready /\ get_order_book_task = None
    /\ \E i \in DOMAIN tasks : done(tasks[i])

\* a 'Connector is ready!' message
ConnectorReadyMessage(e) ==
    /\ Len(e) = 3
    /\ e[1] \in {"notify", "log.warning", "log.error"}
    /\ e[3] = " Connector is ready!"

\* C13: a tick with _ready false and the connector not ready logs one
\* warning, notifies nothing and changes no state, however often it is
\* repeated; the 'Connector is ready!' message only ever goes to the notifier.
C13_NotReadyTick ==
    /\ [][(ret'.op = "tick" /\ ~ready /\ ~exchange_ready)
            => /\ Len(events') = 1
               /\ events'[1][1] = "log.warning"
               /\ events'[1][2] = exchange_name
               /\ UNCHANGED <<ready, get_order_book_task, tasks, config, env, displayed,
                              history>>]_vars
    /\ [](\A k \in DOMAIN events :
            ConnectorReadyMessage(events[k]) => events[k][1] = "notify")

C13_Witness ==
    /\ ret.op = "tick" /\ ~ready /\ ~exchange_ready
    /\ Len(events) = 1 /\ events[1][1] = "log.warning"

\* C14: once the task has ended with an error (ValueError of the market
\* check, KeyError of get_order_book in the loop), no tick launches another
\* loop, and the failing step sends no stop notice.
C14_FailureNotRetried ==
    /\ [](LoopFailed => Launches = 1)
    /\ [][(LoopFailed /\ ret'.op = "tick")
            => tasks' = tasks /\ ~Created(events')
                /\ get_order_book_task' = get_order_book_task]_vars
    /\ [][\A i \in DOMAIN tasks :
            (Failed(tasks'[i]) /\ ~Failed(tasks[i]))
                => ~StoppedNotice(events') /\ stop_notices' = stop_notices]_vars

\* a tick with the connector ready, after the loop failed in its body and stop() ran
C14_Witness ==
    /\ ret.op = "tick" /\ exchange_ready /\ get_order_book_task = None
    /\ \E i \in DOMAIN tasks : tasks[i].pc = "raised KeyError"

\* C15: stop() does not write the live-updates flag, and neither does the
\* delivery of the cancellation; once stop() has cancelled the loop, a flag
\* that is on goes off only by an external actor.
C15_StopLeavesFlag ==
    /\ [][ret'.op = "stop" => live_updates' = live_updates]_vars
    /\ [][\A i \in DOMAIN tasks :
            (tasks'[i].pc = "cancelled" /\ tasks[i].pc # "cancelled")
                => live_updates' = live_updates]_vars
    /\ [][(CancelRequested /\ live_updates /\ ~live_updates')
            => ret'.op = "app.live_updates"]_vars

\* the loop cancelled in its pacing sleep, the flag still on
C15_Witness ==
    /\ live_updates /\ get_order_book_task = None /\ snapshot_read # "unread"
    /\ \E i \in DOMAIN tasks : tasks[i].pc = "cancelled"

\* C16: the stop notice is sent at most once, and only by the step in which
\* the loop, back from cls_display_delay, reads the flag off and returns;
\* a cancellation, the ValueError and the KeyError send none.
C16_StopNoticeOnce ==
    /\ [](stop_notices <= 1)
    /\ [][(StoppedNotice(events') \/ stop_notices' # stop_notices)
            => /\ stop_notices' = stop_notices + 1
               /\ events' = <<NotifyStopped>>
               /\ ~live_updates
               /\ \E i \in DOMAIN tasks :
                    InLoop(tasks[i]) /\ tasks'[i].pc = "returned"]_vars
    /\ [][\A i \in DOMAIN tasks :
            (tasks'[i].pc \in {"cancelled", "raised ValueError", "raised KeyError"}
                /\ tasks'[i].pc # tasks[i].pc)
                => ~StoppedNotice(events') /\ stop_notices' = stop_notices]_vars

C16_Witness == stop_notices = 1 /\ events = <<NotifyStopped>>

\* C17: stop_live_update() is called only by the step that has passed the
\* market check, and that step writes no flag and renders nothing; the flag
\* is set only after stop_live_update() has returned, and first in its step;
\* every render is made with the flag read on in the same step.
C17_StartupOrder ==
    /\ [][OnDisplay(events', "stop_live_update")
            => /\ events' = <<CallStopLiveUpdate>>
               /\ pair_listed
               /\ \E i \in DOMAIN tasks :
                    tasks[i].pc = "scheduled" /\ tasks'[i].pc = "await stop_live_update"
               /\ UNCHANGED <<live_updates, displayed>>]_vars
    /\ [][FlagSet(events')
            => /\ events'[1] = SetLiveUpdates
               /\ live_updates'
               /\ \E i \in DOMAIN tasks :
                    tasks[i].pc = "await stop_live_update" /\ tasks'[i].pc # tasks[i].pc]_vars
    /\ [][Rendered(events')
            => /\ live_updates'
               /\ \E i \in DOMAIN tasks :
                    /\ tasks'[i].pc = "await cls_display_delay"
                    /\ \/ tasks[i].pc = "await stop_live_update" /\ FlagSet(events')
                       \/ tasks[i].pc = "await cls_display_delay" /\ live_updates]_vars

\* the first render, in the step that set the flag
C17_Witness == events = <<SetLiveUpdates, CallClsDisplayDelay>> /\ live_updates

\* C18: the text a render hands to the display is the text of the order
\* book as it is in that step.
C18_FreshSnapshot ==
    [][Rendered(events')
        => displayed' = get_order_book(exchange_name, trading_pair, book, lines)
                            \o <<<<PressEscape>>>>]_vars

\* a render after the book changed during the pacing sleep
C18_Witness == snapshot_read = "reread" /\ Rendered(events)

\* C19: a task stop() was called on (its handle is gone) takes no step but
\* the one that ends it cancelled: no render, no write of the flag, no
\* notice, no call to the display, wherever it was suspended.
C19_CancelEverywhere ==
    [][\A i \in DOMAIN tasks :
        (get_order_book_task # i /\ tasks'[i] # tasks[i])
            => /\ tasks'[i].pc = "cancelled"
               /\ tasks'[i].touched_display = tasks[i].touched_display
               /\ events' = <<>>
               /\ UNCHANGED <<live_updates, displayed, stop_notices>>]_vars

\* a task cancelled before its first step
C19_Witness ==
    \E i \in DOMAIN tasks : tasks[i].pc = "cancelled" /\ ~tasks[i].touched_display

\* C20: _ready never goes back to false; after a launch the status report
\* never gives the not-ready message again.
C20_ReadyMonotonic ==
    /\ [][ready => ready']_vars
    /\ []((Launches >= 1 /\ ret.op = "format_status") => ret.value # NotReadyStatus)

\* a status report after stop(), with the connector no longer ready
C20_Witness ==
    /\ ret.op = "format_status" /\ ready
    /\ get_order_book_task = None /\ ~exchange_ready /\ CancelRequested

=============================================================================
